---- MODULE Spec2Model ----
(***************************************************************************)
(* Model of the Oracle Openflow connector configuration verifier.          *)
(*                                                                         *)
(* The rule-based analyzer (analyze_configuration in                       *)
(* scripts/app/streamlit_app.py) is a function from a collection of named  *)
(* pandas DataFrames to a findings report.  It is modelled as operators    *)
(* that thread the `findings` accumulator through the three rule groups in *)
(* the order of the code; a Python exception is carried in the `exc` field *)
(* of the accumulator and ends the call.                                   *)
(*                                                                         *)
(* Texts built by f-strings are sequences of their pieces; a literal text  *)
(* is a sequence of one piece.                                             *)
(*                                                                         *)
(* Six specifications share the variables:                                 *)
(*   Spec       one call of the analyzer on a collection;                  *)
(*   SpecCalls  calls of the analyzer one after another in one process;    *)
(*   SpecSteps  one call of the analyzer, statement by statement;          *)
(*   SpecRun    one verification run of the script: the liveness check,    *)
(*              the context-setting statement, the diagnostic queries of   *)
(*              the gateway (scripts/oracle_connection_snowflake.py), the  *)
(*              analysis, the session state and the status shown.          *)
(*   SpecSession  the reruns of the script in one browser session;         *)
(*   SpecManager  any sequence of calls on one connection manager.         *)
(***************************************************************************)
EXTENDS Integers, Sequences, FiniteSets, TLC

(***************************************************************************)
(* Bounds of the model.                                                    *)
(***************************************************************************)
\* Largest number of rows of a result set.
MaxRows == 2

\* Largest number of calls made on one connection manager.
MaxCalls == 4

(***************************************************************************)
(* Python values.                                                          *)
(***************************************************************************)
\* Python's None; no catalog value is this string.
None == "<None>"

\* str(v) as used by f-string interpolation of a catalog value.
Str(v) == IF v = None THEN "None" ELSE v

\* str(b) of a Python bool.
StrBool(b) == IF b THEN "True" ELSE "False"

(***************************************************************************)
(* pandas DataFrame and Series, as far as the analyzer uses them.  A frame *)
(* is its set of column labels and its sequence of rows; a row (Series) is *)
(* a function from the column labels to scalar values.                     *)
(***************************************************************************)
DataFrame(columns, rows) == [columns |-> columns, rows |-> rows]

\* pd.DataFrame(): what execute_queries stores for a failed query.
EmptyDataFrame == DataFrame({}, << >>)

\* DataFrame.empty: true when any axis has length 0.
Empty(df) == Len(df.rows) = 0 \/ df.columns = {}

\* DataFrame.iloc[0]
Iloc0(df) == df.rows[1]

\* Series.get(key, default)
Get(series, key, default) ==
    IF key \in DOMAIN series THEN series[key] ELSE default

\* `key in series.index`: Series[key] and DataFrame[key] raise KeyError otherwise.
HasKey(labels, key) == key \in labels

\* df[df[column] == value], for a frame that has the column.
WhereEq(df, column, value) ==
    DataFrame(df.columns, SelectSeq(df.rows, LAMBDA r : r[column] = value))

(***************************************************************************)
(* The findings accumulator.                                               *)
(***************************************************************************)
\* What the last call of analyze_configuration left: nothing yet, a report,
\* or an exception.
VARIABLE outcome

\* NewFindings as a dictionary that outlives the call: a later call goes on
\* from the report of the call before it.
NewFindings_KeptAcrossCalls ==
    IF outcome.kind = "return"
    THEN [summary |-> outcome.findings.summary,
          details |-> outcome.findings.details,
          exc     |-> None,
          trace   |-> << >>]
    ELSE [summary |-> [total_checks |-> 0, passed |-> 0, failed |-> 0, warnings |-> 0],
          details |-> << >>,
          exc     |-> None,
          trace   |-> << >>]

\* streamlit_app.py:253-261, with no exception pending.  `trace` is the
\* model's record of the call: the dictionary as each statement left it.
NewFindings ==
    [summary |-> [total_checks |-> 0, passed |-> 0, failed |-> 0, warnings |-> 0],
     details |-> << >>,
     exc     |-> None,
     trace   |-> << >>]

\* The dictionary as a program point sees it.
View(findings) ==
    [summary |-> findings.summary, details |-> findings.details, exc |-> findings.exc]

\* A statement has run: the dictionary it left joins the trace.
Seen(findings) == [findings EXCEPT !.trace = Append(@, View(findings))]

\* Incr with the increment of `warnings` left out.
Incr_SkipsWarnings(findings, counter) ==
    IF counter = "warnings" THEN findings
    ELSE Seen([findings EXCEPT !.summary[counter] = @ + 1])

\* findings["summary"][counter] += 1
Incr(findings, counter) ==
    Seen([findings EXCEPT !.summary[counter] = @ + 1])

\* AppendDetail putting the new finding in front of the earlier ones.
AppendDetail_Prepends(findings, detail) ==
    Seen([findings EXCEPT !.details = <<detail>> \o @])

\* findings["details"].append(detail)
AppendDetail(findings, detail) ==
    Seen([findings EXCEPT !.details = Append(@, detail)])

\* An exception of class `cls` leaves the statement being executed.
Raise(findings, cls) == Seen([findings EXCEPT !.exc = cls])


(***************************************************************************)
(* Check 1: Database Configuration (streamlit_app.py:263-345).             *)
(***************************************************************************)
\* IsArchiveLog as a test for anything but "NOARCHIVELOG".
IsArchiveLog_NotNoArchiveLog(db_info) ==
    Get(db_info, "LOG_MODE", None) # "NOARCHIVELOG"

\* db_info.get("LOG_MODE") == "ARCHIVELOG", streamlit_app.py:269.
IsArchiveLog(db_info) == Get(db_info, "LOG_MODE", None) = "ARCHIVELOG"

\* Archive Log Mode, streamlit_app.py:267-287.
ArchiveLogMode(findings, db_info) ==
    LET f1 == Incr(findings, "total_checks") IN
    IF IsArchiveLog(db_info)
    THEN AppendDetail(Incr(f1, "passed"),
            [category |-> "Database",
             check    |-> <<"Archive Log Mode">>,
             status   |-> "PASS",
             message  |-> <<"Database is in ARCHIVELOG mode">>,
             value    |-> <<Get(db_info, "LOG_MODE", None)>>])
    ELSE AppendDetail(Incr(f1, "failed"),
            [category    |-> "Database",
             check       |-> <<"Archive Log Mode">>,
             status      |-> "FAIL",
             message     |-> <<"Database must be in ARCHIVELOG mode for CDC">>,
             value       |-> <<Get(db_info, "LOG_MODE", None)>>,
             remediation |-> <<"Execute: ALTER DATABASE ARCHIVELOG;">>])

\* SupplementalLogging with minimal-only logging reported as a WARNING.
SupplementalLogging_MinimalWarns(findings, db_info) ==
    LET f1           == Incr(findings, "total_checks")
        supp_log_min == Get(db_info, "SUPPLEMENTAL_LOG_DATA_MIN", "NO")
        supp_log_all == Get(db_info, "SUPPLEMENTAL_LOG_DATA_ALL", "NO")
        value        == <<"MIN: ", Str(supp_log_min), ", ALL: ", Str(supp_log_all)>>
    IN
    IF supp_log_all = "YES"
    THEN AppendDetail(Incr(f1, "passed"),
            [category |-> "Database",
             check    |-> <<"Supplemental Logging">>,
             status   |-> "PASS",
             message  |-> <<"Full supplemental logging (ALL COLUMNS) is enabled">>,
             value    |-> value])
    ELSE IF supp_log_min = "YES"
    THEN AppendDetail(Incr(f1, "warnings"),
            [category    |-> "Database",
             check       |-> <<"Supplemental Logging">>,
             status      |-> "WARNING",
             message     |-> <<"Minimal supplemental logging is enabled (consider upgrading to ALL COLUMNS)">>,
             value       |-> value,
             remediation |-> <<"Recommended: ALTER DATABASE ADD SUPPLEMENTAL LOG DATA (ALL) COLUMNS;">>])
    ELSE AppendDetail(Incr(f1, "failed"),
            [category    |-> "Database",
             check       |-> <<"Supplemental Logging">>,
             status      |-> "FAIL",
             message     |-> <<"Supplemental logging must be enabled">>,
             value       |-> value,
             remediation |-> <<"ALTER SESSION SET CONTAINER = CDB$ROOT;\nALTER DATABASE ADD SUPPLEMENTAL LOG DATA (ALL) COLUMNS;">>])

\* Supplemental Logging, streamlit_app.py:289-324.
SupplementalLogging(findings, db_info) ==
    LET f1           == Incr(findings, "total_checks")
        supp_log_min == Get(db_info, "SUPPLEMENTAL_LOG_DATA_MIN", "NO")
        supp_log_all == Get(db_info, "SUPPLEMENTAL_LOG_DATA_ALL", "NO")
        value        == <<"MIN: ", Str(supp_log_min), ", ALL: ", Str(supp_log_all)>>
    IN
    IF supp_log_all = "YES"
    THEN AppendDetail(Incr(f1, "passed"),
            [category |-> "Database",
             check    |-> <<"Supplemental Logging">>,
             status   |-> "PASS",
             message  |-> <<"Full supplemental logging (ALL COLUMNS) is enabled">>,
             value    |-> value])
    ELSE IF supp_log_min = "YES"
    THEN AppendDetail(Incr(f1, "passed"),
            [category    |-> "Database",
             check       |-> <<"Supplemental Logging">>,
             status      |-> "PASS",
             message     |-> <<"Minimal supplemental logging is enabled (consider upgrading to ALL COLUMNS)">>,
             value       |-> value,
             remediation |-> <<"Recommended: ALTER DATABASE ADD SUPPLEMENTAL LOG DATA (ALL) COLUMNS;">>])
    ELSE AppendDetail(Incr(f1, "failed"),
            [category    |-> "Database",
             check       |-> <<"Supplemental Logging">>,
             status      |-> "FAIL",
             message     |-> <<"Supplemental logging must be enabled">>,
             value       |-> value,
             remediation |-> <<"ALTER SESSION SET CONTAINER = CDB$ROOT;\nALTER DATABASE ADD SUPPLEMENTAL LOG DATA (ALL) COLUMNS;">>])

\* ContainerDatabase with a non-CDB database reported as a FAIL.
ContainerDatabase_NonCdbFails(findings, db_info) ==
    LET f1 == Incr(findings, "total_checks") IN
    IF Get(db_info, "CDB", None) = "YES"
    THEN AppendDetail(Incr(f1, "passed"),
            [category |-> "Database",
             check    |-> <<"Container Database">>,
             status   |-> "PASS",
             message  |-> <<"Database is a Container Database (CDB)">>,
             value    |-> <<Get(db_info, "CDB", None)>>])
    ELSE AppendDetail(Incr(f1, "failed"),
            [category |-> "Database",
             check    |-> <<"Container Database">>,
             status   |-> "FAIL",
             message  |-> <<"Database is not a CDB. Ensure proper configuration for non-CDB">>,
             value    |-> <<Get(db_info, "CDB", None)>>])

\* CDB Check, streamlit_app.py:326-345.
ContainerDatabase(findings, db_info) ==
    LET f1 == Incr(findings, "total_checks") IN
    IF Get(db_info, "CDB", None) = "YES"
    THEN AppendDetail(Incr(f1, "passed"),
            [category |-> "Database",
             check    |-> <<"Container Database">>,
             status   |-> "PASS",
             message  |-> <<"Database is a Container Database (CDB)">>,
             value    |-> <<Get(db_info, "CDB", None)>>])
    ELSE AppendDetail(Incr(f1, "warnings"),
            [category |-> "Database",
             check    |-> <<"Container Database">>,
             status   |-> "WARNING",
             message  |-> <<"Database is not a CDB. Ensure proper configuration for non-CDB">>,
             value    |-> <<Get(db_info, "CDB", None)>>])

\* The guard of the Database group, streamlit_app.py:264.
DatabaseGuard(results) ==
    "database_info" \in DOMAIN results /\ ~Empty(results["database_info"])

\* DatabaseChecks with the CDB check left out.
DatabaseChecks_NoCdbCheck(findings, results) ==
    IF DatabaseGuard(results)
    THEN LET db_info == Iloc0(results["database_info"]) IN
         SupplementalLogging(ArchiveLogMode(findings, db_info), db_info)
    ELSE findings

\* DatabaseChecks giving every Database finding a remediation, the PASS
\* findings included.
DatabaseChecks_RemediationOnEvery(findings, results) ==
    IF DatabaseGuard(results)
    THEN LET db_info == Iloc0(results["database_info"])
             f       == ContainerDatabase(
                            SupplementalLogging(
                                ArchiveLogMode(findings, db_info), db_info), db_info)
         IN  [f EXCEPT !.details =
                 [i \in DOMAIN @ |->
                     IF "remediation" \in DOMAIN @[i] THEN @[i]
                     ELSE [k \in DOMAIN @[i] \cup {"remediation"} |->
                              IF k = "remediation" THEN <<"No action required">>
                              ELSE @[i][k]]]]
    ELSE findings

\* The Database rule group, streamlit_app.py:264-345.
DatabaseChecks(findings, results) ==
    IF DatabaseGuard(results)
    THEN LET db_info == Iloc0(results["database_info"]) IN
         ContainerDatabase(
             SupplementalLogging(
                 ArchiveLogMode(findings, db_info), db_info), db_info)
    ELSE findings

(***************************************************************************)
(* Check 2: Users (streamlit_app.py:347-386).                              *)
(***************************************************************************)
\* The accounts the Users group looks for, streamlit_app.py:351.
RequiredUsers == <<"C##XSTREAMADMIN", "C##CONNECTUSER">>

\* IsOpen asking for a common user as well.
IsOpen_AndCommon(user_info) ==
    user_info["ACCOUNT_STATUS"] = "OPEN" /\ Get(user_info, "COMMON", "NO") = "YES"

\* user_info["ACCOUNT_STATUS"] == "OPEN", streamlit_app.py:357, for a row that
\* has the label.
IsOpen(user_info) == user_info["ACCOUNT_STATUS"] = "OPEN"

\* One iteration of the loop over the required users, streamlit_app.py:352-386.
\* users_df["USERNAME"] and user_info["ACCOUNT_STATUS"] are subscripts: they
\* raise KeyError when the label is missing.
UserCheck(findings, users_df, required_user) ==
    LET f1 == Incr(findings, "total_checks") IN
    IF ~HasKey(users_df.columns, "USERNAME")
    THEN Raise(f1, "KeyError")
    ELSE
    LET user_rows == WhereEq(users_df, "USERNAME", required_user) IN
    IF ~Empty(user_rows)
    THEN LET user_info == Iloc0(user_rows) IN
         IF ~HasKey(DOMAIN user_info, "ACCOUNT_STATUS")
         THEN Raise(f1, "KeyError")
         ELSE IF IsOpen(user_info)
         THEN LET is_common == Get(user_info, "COMMON", "NO") = "YES" IN
              AppendDetail(Incr(f1, "passed"),
                 [category |-> "Users",
                  check    |-> <<"User ", required_user>>,
                  status   |-> "PASS",
                  message  |-> <<"User ", required_user, " exists and is OPEN">>,
                  value    |-> <<"Status: ", Str(user_info["ACCOUNT_STATUS"]),
                                 ", Common: ", StrBool(is_common),
                                 ", Tablespace: ",
                                 Str(Get(user_info, "DEFAULT_TABLESPACE", "N/A"))>>])
         ELSE AppendDetail(Incr(f1, "failed"),
                 [category    |-> "Users",
                  check       |-> <<"User ", required_user>>,
                  status      |-> "FAIL",
                  message     |-> <<"User ", required_user, " is ",
                                    Str(user_info["ACCOUNT_STATUS"]), " (should be OPEN)">>,
                  value       |-> <<"Status: ", Str(user_info["ACCOUNT_STATUS"])>>,
                  remediation |-> <<"ALTER USER ", required_user, " ACCOUNT UNLOCK;">>])
    ELSE AppendDetail(Incr(f1, "failed"),
            [category    |-> "Users",
             check       |-> <<"User ", required_user>>,
             status      |-> "FAIL",
             message     |-> <<"User ", required_user, " does not exist in CDB$ROOT">>,
             remediation |-> <<"ALTER SESSION SET CONTAINER = CDB$ROOT;\nCREATE USER ",
                               required_user, " IDENTIFIED BY password CONTAINER=ALL;">>])

\* UsersLoop leaving the loop after the first account that fails.
RECURSIVE UsersLoop_StopsAtFailure(_, _, _)
UsersLoop_StopsAtFailure(findings, users_df, i) ==
    IF \/ i > Len(RequiredUsers)
       \/ findings.exc # None
       \/ i > 1 /\ findings.details[Len(findings.details)].status = "FAIL"
    THEN findings
    ELSE UsersLoop_StopsAtFailure(
             UserCheck(findings, users_df, RequiredUsers[i]), users_df, i + 1)

\* The for loop of streamlit_app.py:351 from its i-th iteration on; an
\* exception raised by an iteration ends the loop.
RECURSIVE UsersLoop(_, _, _)
UsersLoop(findings, users_df, i) ==
    IF i > Len(RequiredUsers) \/ findings.exc # None
    THEN findings
    ELSE UsersLoop(UserCheck(findings, users_df, RequiredUsers[i]), users_df, i + 1)

\* UsersGuard without the test for an empty frame.
UsersGuard_KeyOnly(results) == "users_check" \in DOMAIN results

\* The guard of the Users group, streamlit_app.py:348.
UsersGuard(results) ==
    "users_check" \in DOMAIN results /\ ~Empty(results["users_check"])

\* The Users rule group, streamlit_app.py:348-386.
UsersChecks(findings, results) ==
    IF findings.exc # None THEN findings
    ELSE IF UsersGuard(results)
    THEN UsersLoop(findings, results["users_check"], 1)
    ELSE findings

(***************************************************************************)
(* Check 3: XStream Outbound Server (streamlit_app.py:388-419).            *)
(***************************************************************************)

\* XStreamGuard skipping an empty frame, as the guards of the other groups do.
XStreamGuard_NonEmpty(results) ==
    "xstream_outbound" \in DOMAIN results /\ ~Empty(results["xstream_outbound"])

\* XStreamGuard asking for a database_info key as well.
XStreamGuard_NeedsDatabaseInfo(results) ==
    "xstream_outbound" \in DOMAIN results /\ "database_info" \in DOMAIN results

\* The guard of the XStream group, streamlit_app.py:389.
XStreamGuard(results) == "xstream_outbound" \in DOMAIN results

\* IsActive accepting "ENABLED" only.
IsActive_EnabledOnly(xstream) == Get(xstream, "STATUS", None) = "ENABLED"

\* xstream.get("STATUS") in ["ENABLED", "ATTACHED"], streamlit_app.py:393.
IsActive(xstream) == Get(xstream, "STATUS", None) \in {"ENABLED", "ATTACHED"}

\* The XStream rule group, streamlit_app.py:389-419.
XStreamCheck(findings, results) ==
    IF findings.exc # None THEN findings
    ELSE IF XStreamGuard(results)
    THEN LET f1 == Incr(findings, "total_checks") IN
         IF ~Empty(results["xstream_outbound"])
         THEN LET xstream == Iloc0(results["xstream_outbound"]) IN
              IF IsActive(xstream)
              THEN AppendDetail(Incr(f1, "passed"),
                      [category |-> "XStream",
                       check    |-> <<"Outbound Server">>,
                       status   |-> "PASS",
                       message  |-> <<"XStream outbound server '",
                                      Str(Get(xstream, "SERVER_NAME", None)), "' is ",
                                      Str(Get(xstream, "STATUS", None))>>,
                       value    |-> <<"Connect User: ",
                                      Str(Get(xstream, "CONNECT_USER", None)),
                                      ", Queue: ",
                                      Str(Get(xstream, "QUEUE_NAME", "N/A"))>>])
              ELSE AppendDetail(Incr(f1, "warnings"),
                      [category |-> "XStream",
                       check    |-> <<"Outbound Server">>,
                       status   |-> "WARNING",
                       message  |-> <<"XStream outbound server status is ",
                                      Str(Get(xstream, "STATUS", None))>>,
                       value    |-> <<"Server: ", Str(Get(xstream, "SERVER_NAME", None))>>])
         ELSE AppendDetail(Incr(f1, "failed"),
                 [category    |-> "XStream",
                  check       |-> <<"Outbound Server">>,
                  status      |-> "FAIL",
                  message     |-> <<"No XStream outbound server configured">>,
                  remediation |-> <<"Execute DBMS_XSTREAM_ADM.CREATE_OUTBOUND to create server">>])
    ELSE findings

(***************************************************************************)
(* analyze_configuration (streamlit_app.py:251-421).                       *)
(***************************************************************************)
\* What a call leaves to its caller: the report of line 421, or the
\* exception that ended it (the local accumulator is then lost).
Outcome(findings) ==
    IF findings.exc = None
    THEN [kind |-> "return",
          findings |-> [summary |-> findings.summary, details |-> findings.details]]
    ELSE [kind |-> "raise", exc |-> findings.exc]

\* The three rule groups in the order of the code, streamlit_app.py:263-419.
Run(results) ==
    XStreamCheck(UsersChecks(DatabaseChecks(NewFindings, results), results), results)

analyze_configuration(results) == Outcome(Run(results))

(***************************************************************************)
(* The result-set collections the analyzer is run on.                      *)
(***************************************************************************)
\* The columns the analyzer reads, by query name (streamlit_app.py:113-123,
\* 124-135, 190-199).
Columns(query) ==
    CASE query = "database_info" ->
            {"LOG_MODE", "SUPPLEMENTAL_LOG_DATA_MIN", "SUPPLEMENTAL_LOG_DATA_ALL", "CDB"}
      [] query = "users_check" ->
            {"USERNAME", "ACCOUNT_STATUS", "COMMON", "DEFAULT_TABLESPACE"}
      [] query = "xstream_outbound" ->
            {"SERVER_NAME", "CONNECT_USER", "QUEUE_NAME", "STATUS"}

\* The values a column takes in the model.
ColumnValues(column) ==
    CASE column = "LOG_MODE"                  -> {"ARCHIVELOG", "NOARCHIVELOG"}
      [] column = "SUPPLEMENTAL_LOG_DATA_MIN" -> {"YES", "NO"}
      [] column = "SUPPLEMENTAL_LOG_DATA_ALL" -> {"YES", "NO"}
      [] column = "CDB"                       -> {"YES", "NO"}
      [] column = "USERNAME"           -> {"C##XSTREAMADMIN", "C##CONNECTUSER", "SYSTEM"}
      [] column = "ACCOUNT_STATUS"     -> {"OPEN", "LOCKED"}
      [] column = "COMMON"             -> {"YES", "NO"}
      [] column = "DEFAULT_TABLESPACE" -> {"XSTREAM_ADM_TBS"}
      [] column = "SERVER_NAME"  -> {"XOUT"}
      [] column = "CONNECT_USER" -> {"C##CONNECTUSER"}
      [] column = "QUEUE_NAME"   -> {"Q$_XOUT"}
      [] column = "STATUS"       -> {"ENABLED", "ATTACHED", "DISABLED"}

AllValues == UNION {ColumnValues(c) : c \in UNION {Columns(q) :
                 q \in {"database_info", "users_check", "xstream_outbound"}}}

\* The column sets a result set of the query comes with: all the columns
\* read, the columns read less some of them, or none.
ColumnSets(query) ==
    LET all == Columns(query) IN
    CASE query = "database_info" ->
            {all, {}, all \ {"LOG_MODE"}, all \ {"CDB"},
             all \ {"SUPPLEMENTAL_LOG_DATA_MIN"}, all \ {"SUPPLEMENTAL_LOG_DATA_ALL"},
             all \ {"SUPPLEMENTAL_LOG_DATA_MIN", "SUPPLEMENTAL_LOG_DATA_ALL"}}
      [] query = "users_check" ->
            {all, {}, all \ {"USERNAME"}, all \ {"ACCOUNT_STATUS"},
             all \ {"COMMON", "DEFAULT_TABLESPACE"}}
      [] query = "xstream_outbound" ->
            {all, {}, all \ {"STATUS"}, all \ {"QUEUE_NAME"}, {"STATUS"}}

\* The rows over a set of columns.
RowsOver(columns) ==
    {r \in [columns -> AllValues] : \A c \in columns : r[c] \in ColumnValues(c)}

\* The frames of a query: every column set, and up to MaxRows rows over it.
Frames(query) ==
    UNION {{DataFrame(cs, rows) :
               rows \in UNION {[1..n -> RowsOver(cs)] : n \in 0..MaxRows}} :
           cs \in ColumnSets(query)}

\* A few typical frames of each query.
TypicalFrames(query) ==
    CASE query = "database_info" ->
            {EmptyDataFrame,
             DataFrame(Columns(query),
                <<[LOG_MODE |-> "ARCHIVELOG", SUPPLEMENTAL_LOG_DATA_MIN |-> "YES",
                   SUPPLEMENTAL_LOG_DATA_ALL |-> "YES", CDB |-> "YES"]>>),
             DataFrame(Columns(query),
                <<[LOG_MODE |-> "NOARCHIVELOG", SUPPLEMENTAL_LOG_DATA_MIN |-> "YES",
                   SUPPLEMENTAL_LOG_DATA_ALL |-> "NO", CDB |-> "NO"]>>)}
      [] query = "users_check" ->
            {EmptyDataFrame,
             DataFrame(Columns(query),
                <<[USERNAME |-> "C##CONNECTUSER", ACCOUNT_STATUS |-> "OPEN",
                   COMMON |-> "YES", DEFAULT_TABLESPACE |-> "XSTREAM_ADM_TBS"],
                  [USERNAME |-> "C##XSTREAMADMIN", ACCOUNT_STATUS |-> "LOCKED",
                   COMMON |-> "YES", DEFAULT_TABLESPACE |-> "XSTREAM_ADM_TBS"]>>)}
      [] query = "xstream_outbound" ->
            {EmptyDataFrame,
             DataFrame(Columns(query),
                <<[SERVER_NAME |-> "XOUT", CONNECT_USER |-> "C##CONNECTUSER",
                   QUEUE_NAME |-> "Q$_XOUT", STATUS |-> "DISABLED"]>>)}

\* A key of the collection: absent, or present with a frame.
Absent == [present |-> FALSE, frame |-> EmptyDataFrame]
Present(frames) == {[present |-> TRUE, frame |-> f] : f \in frames}

\* The collection holding the present ones of the three keys.
Collection(db, users, xs) ==
    LET entry == [database_info |-> db, users_check |-> users, xstream_outbound |-> xs]
    IN  [k \in {q \in DOMAIN entry : entry[q].present} |-> entry[k].frame]

\* The choices for a key: absent or a typical frame; absent or any frame.
Few(query) == {Absent} \cup Present(TypicalFrames(query))
All(query) == {Absent} \cup Present(Frames(query))

\* The collections of the model: one key ranges over all its frames while
\* the other two are absent or hold a typical frame.
IsInput(collection) ==
    \/ \E d \in All("database_info"), u \in Few("users_check"),
          x \in Few("xstream_outbound") : collection = Collection(d, u, x)
    \/ \E d \in Few("database_info"), u \in All("users_check"),
          x \in Few("xstream_outbound") : collection = Collection(d, u, x)
    \/ \E d \in Few("database_info"), u \in Few("users_check"),
          x \in All("xstream_outbound") : collection = Collection(d, u, x)

(***************************************************************************)
(* The specification: one call of analyze_configuration on a collection.   *)
(***************************************************************************)
VARIABLES
    results,    \* the collection passed to analyze_configuration
    first,      \* the first call of the process: its collection and outcome
    findings,   \* the findings dictionary of a call in progress
    step,       \* the number of statements of that call that have run
    connection, \* OracleConnectionSnowflake.connection and the state of its link
    database,   \* what the database answers to each diagnostic query
    broken,     \* the statements the database rejects with a DatabaseError
    pc,         \* where the verification run of the script stands
    queries,    \* the diagnostic queries execute_queries has still to run
    log,        \* the gateway calls of the run, in the order they completed
    session_state,  \* st.session_state['results'] and ['findings']
    overall     \* the overall status shown

analysis == <<results, outcome, first, findings, step>>
run      == <<connection, database, broken, pc, queries, log, session_state, overall>>
vars     == <<analysis, run>>

\* The session state without the keys 'results' and 'findings',
\* streamlit_app.py:589.
NoReport == << >>

\* No verification run: the analyzer is called on its own.
NotRunning ==
    /\ connection = "none"
    /\ database = << >>
    /\ broken = {}
    /\ pc = "idle"
    /\ queries = << >>
    /\ log = << >>
    /\ session_state = NoReport
    /\ overall = None

\* No call is followed statement by statement.
NotStepping ==
    /\ findings = View(NewFindings)
    /\ step = 0

NotCalled == [kind |-> "none"]

\* No call has been followed by another one yet.
NoCall == [results |-> << >>, outcome |-> NotCalled]

Init ==
    /\ IsInput(results)
    /\ outcome = NotCalled
    /\ first = NoCall
    /\ NotStepping
    /\ NotRunning

\* findings = analyze_configuration(results), streamlit_app.py:467.
Analyze ==
    /\ outcome.kind = "none"
    /\ outcome' = analyze_configuration(results)
    /\ UNCHANGED <<results, first, findings, step, run>>

Next == Analyze

Spec == Init /\ [][Next]_vars

(***************************************************************************)
(* The specification of a sequence of calls: analyze_configuration is      *)
(* called again and again in one process (every press of the button runs   *)
(* streamlit_app.py:467), each time on any collection.                     *)
(***************************************************************************)
\* A key the analyzer never reads, streamlit_app.py:136-147.
NeverRead == "user_privileges"

NeverReadFrames ==
    {DataFrame({"GRANTEE", "PRIVILEGE"},
        <<[GRANTEE |-> "C##XSTREAMADMIN", PRIVILEGE |-> "CREATE SESSION"]>>)}

\* A users_check frame without the account-name column.
UsersWithoutName ==
    DataFrame(Columns("users_check") \ {"USERNAME"},
        <<[ACCOUNT_STATUS |-> "OPEN", COMMON |-> "YES",
           DEFAULT_TABLESPACE |-> "XSTREAM_ADM_TBS"]>>)

\* The collection with one more key, when that key is present.
With(collection, key, entry) ==
    IF entry.present
    THEN [k \in DOMAIN collection \cup {key} |->
             IF k = key THEN entry.frame ELSE collection[k]]
    ELSE collection

\* The collections of the calls: every key absent or with a typical frame,
\* users_check with rows or without its account-name column, and the
\* never-read key absent or with a row.
CallInputs ==
    {With(Collection(d, u, x), NeverRead, p) :
        d \in Few("database_info"),
        u \in (Few("users_check") \ Present({EmptyDataFrame}))
                 \cup Present({UsersWithoutName}),
        x \in Few("xstream_outbound"),
        p \in {Absent} \cup Present(NeverReadFrames)}

InitCalls ==
    /\ results \in CallInputs
    /\ outcome = NotCalled
    /\ first = NoCall
    /\ NotStepping
    /\ NotRunning

\* A later call, streamlit_app.py:467 on a rerun of the script.
CallAgain ==
    /\ outcome.kind # "none"
    /\ \E collection \in CallInputs :
           /\ results' = collection
           /\ outcome' = analyze_configuration(collection)
    /\ first' = IF first = NoCall
                THEN [results |-> results, outcome |-> outcome]
                ELSE first
    /\ UNCHANGED <<findings, step, run>>

NextCalls == Analyze \/ CallAgain

SpecCalls == InitCalls /\ [][NextCalls]_vars

(***************************************************************************)
(* The specification of one call followed statement by statement: every    *)
(* statement of analyze_configuration that changes the findings dictionary *)
(* or raises is a step, and the call ends by returning the dictionary or   *)
(* by letting the exception out.                                           *)
(***************************************************************************)
InitSteps ==
    /\ results \in CallInputs
    /\ outcome = NotCalled
    /\ first = NoCall
    /\ NotStepping
    /\ NotRunning

\* The next statement of the call runs.
Statement ==
    /\ outcome.kind = "none"
    /\ step < Len(Run(results).trace)
    /\ step' = step + 1
    /\ findings' = Run(results).trace[step + 1]
    /\ UNCHANGED <<results, outcome, first, run>>

\* return findings, streamlit_app.py:421.
Return ==
    /\ outcome.kind = "none"
    /\ step = Len(Run(results).trace)
    /\ findings.exc = None
    /\ outcome' = Outcome(Run(results))
    /\ UNCHANGED <<results, first, findings, step, run>>

\* The exception of the last statement leaves the call.
Propagate ==
    /\ outcome.kind = "none"
    /\ step = Len(Run(results).trace)
    /\ findings.exc # None
    /\ outcome' = Outcome(Run(results))
    /\ UNCHANGED <<results, first, findings, step, run>>

NextSteps == Statement \/ Return \/ Propagate

SpecSteps == InitSteps /\ [][NextSteps]_vars

(***************************************************************************)
(* The database gateway (scripts/oracle_connection_snowflake.py).  The     *)
(* connection is "none" (self.connection is None), "open" (the probe       *)
(* SELECT 1 FROM DUAL succeeds) or "lost" (a connection object whose link  *)
(* is gone: the probe raises).  A statement is named by its catalog key.   *)
(***************************************************************************)
\* is_connected, oracle_connection_snowflake.py:164-174.
is_connected(conn) == conn = "open"

\* execute_ddl sending its statement without the liveness probe: a link
\* that is gone makes the statement fail.
execute_ddl_NoProbe(conn, rejected, name) ==
    IF conn # "open" \/ name \in rejected
    THEN [kind |-> "raise", error |-> "DDL Error"]
    ELSE [kind |-> "return", value |-> TRUE]

\* execute_ddl, oracle_connection_snowflake.py:176-197.
execute_ddl(conn, rejected, name) ==
    IF ~is_connected(conn)
    THEN [kind |-> "raise", error |-> "Not connected"]
    ELSE IF name \in rejected
    THEN [kind |-> "raise", error |-> "DDL Error"]
    ELSE [kind |-> "return", value |-> TRUE]

\* execute_query, oracle_connection_snowflake.py:199-230.
execute_query(conn, answers, rejected, name) ==
    IF ~is_connected(conn)
    THEN [kind |-> "raise", error |-> "Not connected"]
    ELSE IF name \in rejected
    THEN [kind |-> "raise", error |-> "Query Error"]
    ELSE [kind |-> "return", value |-> answers[name]]

\* d[k] = v on a dictionary.
Put(d, k, v) == [x \in DOMAIN d \cup {k} |-> IF x = k THEN v ELSE d[x]]

\* Executed leaving a failed query out of the collection.
Executed_DropsFailed(collection, name, r) ==
    IF r.kind = "raise" THEN collection ELSE Put(collection, name, r.value)

\* One iteration of the loop of execute_queries, given what execute_query
\* did: oracle_connection_snowflake.py:244-248.
Executed(collection, name, r) ==
    IF r.kind = "raise"
    THEN Put(collection, name, EmptyDataFrame)
    ELSE Put(collection, name, r.value)

\* The entry of the log for a gateway call that completed.
Logged(op, name, r) ==
    [op |-> op, name |-> name,
     error |-> IF r.kind = "raise" THEN r.error ELSE None]

(***************************************************************************)
(* The verification run (streamlit_app.py:445-529).                        *)
(***************************************************************************)
\* The keys of generate_verification_sql in dictionary order: the context
\* statement, the three queries the analyzer reads and one of those it
\* does not read (streamlit_app.py:109-249).
generate_verification_sql ==
    <<"set_container", "database_info", "users_check", NeverRead,
      "xstream_outbound">>

\* DiagnosticQueries leaving the context statement in the dictionary.
DiagnosticQueries_KeepsAll(catalog) == catalog

\* del queries["set_container"], streamlit_app.py:460-461.
DiagnosticQueries(catalog) ==
    SelectSeq(catalog, LAMBDA name : name # "set_container")

\* OverallStatus looking at the warnings first.
OverallStatus_WarningsFirst(summary) ==
    IF summary.warnings > 0 THEN "PASS WITH WARNINGS"
    ELSE IF summary.failed = 0 THEN "PASS" ELSE "FAIL"

\* The overall status shown, streamlit_app.py:492-498.
OverallStatus(summary) ==
    IF summary.failed = 0
    THEN IF summary.warnings = 0 THEN "PASS" ELSE "PASS WITH WARNINGS"
    ELSE "FAIL"

\* What the database answers to a query that it does not reject: a frame
\* with the columns selected and the rows found.
Answers(query) ==
    CASE query = "database_info" ->
            {DataFrame(Columns(query),
                <<[LOG_MODE |-> "ARCHIVELOG", SUPPLEMENTAL_LOG_DATA_MIN |-> "YES",
                   SUPPLEMENTAL_LOG_DATA_ALL |-> "YES", CDB |-> "YES"]>>),
             DataFrame(Columns(query),
                <<[LOG_MODE |-> "ARCHIVELOG", SUPPLEMENTAL_LOG_DATA_MIN |-> "YES",
                   SUPPLEMENTAL_LOG_DATA_ALL |-> "YES", CDB |-> "NO"]>>),
             DataFrame(Columns(query),
                <<[LOG_MODE |-> "NOARCHIVELOG", SUPPLEMENTAL_LOG_DATA_MIN |-> "YES",
                   SUPPLEMENTAL_LOG_DATA_ALL |-> "NO", CDB |-> "NO"]>>)}
      [] query = "users_check" ->
            {DataFrame(Columns(query), << >>),
             DataFrame(Columns(query),
                <<[USERNAME |-> "C##CONNECTUSER", ACCOUNT_STATUS |-> "OPEN",
                   COMMON |-> "YES", DEFAULT_TABLESPACE |-> "XSTREAM_ADM_TBS"],
                  [USERNAME |-> "C##XSTREAMADMIN", ACCOUNT_STATUS |-> "OPEN",
                   COMMON |-> "YES", DEFAULT_TABLESPACE |-> "XSTREAM_ADM_TBS"]>>)}
      [] query = "xstream_outbound" ->
            {DataFrame(Columns(query), << >>),
             DataFrame(Columns(query),
                <<[SERVER_NAME |-> "XOUT", CONNECT_USER |-> "C##CONNECTUSER",
                   QUEUE_NAME |-> "Q$_XOUT", STATUS |-> "ENABLED"]>>)}
      [] query = NeverRead -> NeverReadFrames

\* The names in a sequence of names.
Names(catalog) == {catalog[i] : i \in DOMAIN catalog}

\* No analyzer call outside the run.
NotAnalyzing ==
    /\ results = << >>
    /\ outcome = NotCalled
    /\ first = NoCall
    /\ NotStepping

InitRun ==
    /\ NotAnalyzing
    /\ connection \in {"none", "open", "lost"}
    /\ \E d \in Answers("database_info"), u \in Answers("users_check"),
          p \in Answers(NeverRead), x \in Answers("xstream_outbound") :
           database = [database_info |-> d, users_check |-> u,
                       user_privileges |-> p, xstream_outbound |-> x]
    /\ broken \in SUBSET Names(generate_verification_sql)
    /\ pc = "idle"
    /\ queries = << >>
    /\ log = << >>
    /\ session_state = NoReport
    /\ overall = None

\* The link of an open connection goes away, at any point up to the last
\* gateway call of the run.
Lose ==
    /\ connection = "open"
    /\ pc \in {"idle", "set_container", "execute_queries"}
    /\ connection' = "lost"
    /\ UNCHANGED <<analysis, database, broken, pc, queries, log, session_state,
                   overall>>

\* The button is pressed: if run_check and oracle_conn and
\* oracle_conn.is_connected(), streamlit_app.py:445, 525-529.
RunCheck ==
    /\ pc = "idle"
    /\ pc' = IF is_connected(connection) THEN "set_container" ELSE "refused"
    /\ UNCHANGED <<analysis, connection, database, broken, queries, log,
                   session_state, overall>>

\* queries = generate_verification_sql(); execute_ddl in its own try;
\* del queries["set_container"].  streamlit_app.py:449-461.
SetContainer ==
    /\ pc = "set_container"
    /\ log' = Append(log, Logged("execute_ddl", "set_container",
                  execute_ddl(connection, broken, "set_container")))
    /\ queries' = DiagnosticQueries(generate_verification_sql)
    /\ pc' = "execute_queries"
    /\ UNCHANGED <<analysis, connection, database, broken, session_state, overall>>

\* One iteration of the loop of execute_queries,
\* oracle_connection_snowflake.py:244-248.
ExecuteQuery ==
    /\ pc = "execute_queries"
    /\ queries # << >>
    /\ LET name == Head(queries)
           r    == execute_query(connection, database, broken, name)
       IN  /\ results' = Executed(results, name, r)
           /\ log' = Append(log, Logged("execute_query", name, r))
    /\ queries' = Tail(queries)
    /\ UNCHANGED <<outcome, first, findings, step, connection, database, broken,
                   pc, session_state, overall>>

\* execute_queries returns; findings = analyze_configuration(results),
\* streamlit_app.py:464-467.  An exception goes to the handler of line 521.
RunAnalyze ==
    /\ pc = "execute_queries"
    /\ queries = << >>
    /\ outcome' = analyze_configuration(results)
    /\ pc' = IF outcome'.kind = "raise" THEN "error" ELSE "store"
    /\ UNCHANGED <<results, first, findings, step, connection, database, broken,
                   queries, log, session_state, overall>>

\* st.session_state['results'] = results; st.session_state['findings'] =
\* findings.  streamlit_app.py:470-471.
Store ==
    /\ pc = "store"
    /\ session_state' = [results |-> results, findings |-> outcome.findings]
    /\ pc' = "show_status"
    /\ UNCHANGED <<analysis, connection, database, broken, queries, log, overall>>

\* The overall status is shown, streamlit_app.py:490-498.
ShowStatus ==
    /\ pc = "show_status"
    /\ overall' = OverallStatus(outcome.findings.summary)
    /\ pc' = "done"
    /\ UNCHANGED <<analysis, connection, database, broken, queries, log,
                   session_state>>

NextRun ==
    \/ Lose
    \/ RunCheck
    \/ SetContainer
    \/ ExecuteQuery
    \/ RunAnalyze
    \/ Store
    \/ ShowStatus

SpecRun == InitRun /\ [][NextRun]_vars

(***************************************************************************)
(* The specification of a session: the script is rerun again and again     *)
(* (Streamlit reruns it on every interaction), with or without the Run     *)
(* Verification button pressed, and the sidebar connects and disconnects.  *)
(* The session state outlives the reruns; the locals of the script do not. *)
(***************************************************************************)
\* Rerun forgetting the stored report.
Rerun_ClearsReport ==
    /\ pc \in {"done", "refused", "error", "passive"}
    /\ pc' = "idle"
    /\ results' = << >>
    /\ outcome' = NotCalled
    /\ queries' = << >>
    /\ log' = << >>
    /\ overall' = None
    /\ session_state' = NoReport
    /\ UNCHANGED <<first, findings, step, connection, database, broken>>

\* The script has reached its end and is run again from the top: its
\* locals are new, st.session_state is kept.
Rerun ==
    /\ pc \in {"done", "refused", "error", "passive"}
    /\ pc' = "idle"
    /\ results' = << >>
    /\ outcome' = NotCalled
    /\ queries' = << >>
    /\ log' = << >>
    /\ overall' = None
    /\ UNCHANGED <<first, findings, step, connection, database, broken,
                   session_state>>

\* A rerun without the Run Verification button: the branches of
\* streamlit_app.py:525-529.
NoPress ==
    /\ pc = "idle"
    /\ pc' = "passive"
    /\ UNCHANGED <<analysis, connection, database, broken, queries, log,
                   session_state, overall>>

\* The Connect button, oracle_connection_snowflake.py:353-363: a new manager
\* is stored and the script rerun when test_connection succeeds; otherwise
\* the script goes on without a manager.
ConnectButton ==
    /\ pc = "idle"
    /\ \/ connection' = "open" /\ pc' = "idle"
       \/ connection' = connection /\ pc' = "passive"
    /\ UNCHANGED <<analysis, database, broken, queries, log, session_state,
                   overall>>

\* The Disconnect button, shown for a live connection:
\* oracle_connection_snowflake.py:437-448.
DisconnectButton ==
    /\ pc = "idle"
    /\ is_connected(connection)
    /\ connection' = "none"
    /\ UNCHANGED <<analysis, database, broken, pc, queries, log, session_state,
                   overall>>

NextSession ==
    \/ NextRun
    \/ Rerun
    \/ NoPress
    \/ ConnectButton
    \/ DisconnectButton

SpecSession == InitRun /\ [][NextSession]_vars

(***************************************************************************)
(* The specification of one connection manager: any sequence of connect,   *)
(* disconnect, execute_query and execute_ddl calls on one                  *)
(* OracleConnectionSnowflake, up to MaxCalls calls, while the link of its  *)
(* connection may go away at any point.  The log holds the calls in the    *)
(* order they completed, each with the connection before and after it.     *)
(***************************************************************************)
\* What a connect call meets: parameters or password missing ("refused",
\* lines 116-120), oracledb.connect raising ("unreachable", line 133), the
\* test query raising on the new connection ("dropped", lines 140-142), or
\* none of these ("accepted").
Attempts == {"refused", "unreachable", "dropped", "accepted"}

\* connect, oracle_connection_snowflake.py:79-151: the connection it leaves
\* and the error of its (False, message), None for (True, message).
connect(conn, attempt) ==
    CASE attempt = "refused" ->
            [connection |-> conn, error |-> "Missing parameters"]
      [] attempt = "unreachable" ->
            [connection |-> conn, error |-> "Oracle Error"]
      [] attempt = "dropped" ->
            [connection |-> "lost", error |-> "Oracle Error"]
      [] attempt = "accepted" ->
            [connection |-> "open", error |-> None]

\* disconnect, oracle_connection_snowflake.py:153-162; `closes` tells
\* whether connection.close() returns.
disconnect(conn, closes) ==
    IF conn = "none"
    THEN [connection |-> conn, error |-> None]
    ELSE IF closes
    THEN [connection |-> "none", error |-> None]
    ELSE [connection |-> conn, error |-> "Disconnect Error"]

\* The entry of the log for a call of the manager.
Called(op, error, before, after) ==
    [op |-> op, error |-> error, before |-> before, after |-> after]

\* The database of the manager's calls: one answer per statement.
ManagerAnswers ==
    [database_info |->
        DataFrame(Columns("database_info"),
            <<[LOG_MODE |-> "ARCHIVELOG", SUPPLEMENTAL_LOG_DATA_MIN |-> "YES",
               SUPPLEMENTAL_LOG_DATA_ALL |-> "YES", CDB |-> "YES"]>>)]

InitManager ==
    /\ NotAnalyzing
    /\ connection = "none"
    /\ database = ManagerAnswers
    /\ broken \in SUBSET {"set_container", "database_info"}
    /\ pc = "idle"
    /\ queries = << >>
    /\ log = << >>
    /\ session_state = NoReport
    /\ overall = None

\* A call of connect.
Connect ==
    /\ Len(log) < MaxCalls
    /\ \E attempt \in Attempts :
           LET r == connect(connection, attempt) IN
           /\ connection' = r.connection
           /\ log' = Append(log, Called("connect", r.error, connection, r.connection))
    /\ UNCHANGED <<analysis, database, broken, pc, queries, session_state, overall>>

\* A call of disconnect; close() of a connection whose link is gone may
\* raise.
Disconnect ==
    /\ Len(log) < MaxCalls
    /\ \E closes \in BOOLEAN :
           /\ ~closes => connection = "lost"
           /\ LET r == disconnect(connection, closes) IN
              /\ connection' = r.connection
              /\ log' = Append(log,
                     Called("disconnect", r.error, connection, r.connection))
    /\ UNCHANGED <<analysis, database, broken, pc, queries, session_state, overall>>

\* A call of execute_query.
CallExecuteQuery ==
    /\ Len(log) < MaxCalls
    /\ LET r == execute_query(connection, database, broken, "database_info") IN
       log' = Append(log,
           Called("execute_query", Logged("execute_query", "database_info", r).error,
                  connection, connection))
    /\ UNCHANGED <<analysis, connection, database, broken, pc, queries,
                   session_state, overall>>

\* A call of execute_ddl.
CallExecuteDdl ==
    /\ Len(log) < MaxCalls
    /\ LET r == execute_ddl(connection, broken, "set_container") IN
       log' = Append(log,
           Called("execute_ddl", Logged("execute_ddl", "set_container", r).error,
                  connection, connection))
    /\ UNCHANGED <<analysis, connection, database, broken, pc, queries,
                   session_state, overall>>

NextManager ==
    \/ Connect
    \/ Disconnect
    \/ CallExecuteQuery
    \/ CallExecuteDdl
    \/ Lose

SpecManager == InitManager /\ [][NextManager]_vars

(***************************************************************************)
(* Reading the outcome of a call.                                          *)
(***************************************************************************)
Returned == outcome.kind = "return"
Raised   == outcome.kind = "raise"
Summary  == outcome.findings.summary
Details  == outcome.findings.details

InCategory(category) == SelectSeq(Details, LAMBDA d : d.category = category)
ForCheck(check)      == SelectSeq(Details, LAMBDA d : d.check = check)
WithStatus(status)   == SelectSeq(Details, LAMBDA d : d.status = status)
HasRemediation(d)    == "remediation" \in DOMAIN d

SummaryIs(total, passed, failed, warnings) ==
    Summary = [total_checks |-> total, passed |-> passed,
               failed |-> failed, warnings |-> warnings]

\* A key is present and its result set is not empty (DataFrame.empty).
NonEmpty(key) == key \in DOMAIN results /\ ~Empty(results[key])

\* The first row of database_info, when the Database group is evaluated.
FirstDbRow == results["database_info"].rows[1]

\* The value of a column of a row, None when the row has no such column.
Field(row, column) == IF column \in DOMAIN row THEN row[column] ELSE None

\* A supplemental-logging flag of a row, a missing flag read as "NO".
Flag(row, column) == IF column \in DOMAIN row THEN row[column] ELSE "NO"

(***************************************************************************)
(* C1.  Every report that analyze_configuration returns satisfies          *)
(* total_checks = passed + failed + warnings and total_checks = the number *)
(* of entries of details.                                                  *)
(***************************************************************************)
C1_SummaryMatchesDetails ==
    Returned =>
        /\ Summary.total_checks = Summary.passed + Summary.failed + Summary.warnings
        /\ Summary.total_checks = Len(Details)

\* A report of all three groups, with each of the three counters used.
C1_Witness ==
    /\ Returned
    /\ Summary.total_checks = 6
    /\ Summary.passed > 0 /\ Summary.failed > 0 /\ Summary.warnings > 0

(***************************************************************************)
(* C2.  analyze_configuration never raises: for every collection, also one *)
(* whose non-empty users_check lacks the account-name or account-status    *)
(* column, the call returns a report.                                      *)
(***************************************************************************)
C2_NeverRaises == ~Raised

(***************************************************************************)
(* C3.  For a collection whose only key is database_info, with one row     *)
(* whose log mode is not "ARCHIVELOG", both supplemental-logging flags     *)
(* "NO" and CDB "NO": Archive Log Mode is FAIL with a remediation,         *)
(* Supplemental Logging is FAIL with a remediation, Container Database is  *)
(* WARNING, and the summary (total_checks, passed, failed, warnings) is    *)
(* (3, 1, 1, 1) in the claim as stated, (3, 0, 2, 1) in the amended claim. *)
(***************************************************************************)
C3_Case ==
    /\ DOMAIN results = {"database_info"}
    /\ Len(results["database_info"].rows) = 1
    /\ Field(FirstDbRow, "LOG_MODE") # "ARCHIVELOG"
    /\ Field(FirstDbRow, "SUPPLEMENTAL_LOG_DATA_MIN") = "NO"
    /\ Field(FirstDbRow, "SUPPLEMENTAL_LOG_DATA_ALL") = "NO"
    /\ Field(FirstDbRow, "CDB") = "NO"

C3_Findings ==
    /\ Len(Details) = 3
    /\ Details[1].check = <<"Archive Log Mode">>
    /\ Details[1].status = "FAIL" /\ HasRemediation(Details[1])
    /\ Details[2].check = <<"Supplemental Logging">>
    /\ Details[2].status = "FAIL" /\ HasRemediation(Details[2])
    /\ Details[3].check = <<"Container Database">>
    /\ Details[3].status = "WARNING"

\* The claim as stated.
C3_SummaryOnePassed ==
    (C3_Case /\ outcome.kind # "none") =>
        Returned /\ C3_Findings /\ SummaryIs(3, 1, 1, 1)

\* The amended claim.
C3_SummaryTwoFailed ==
    (C3_Case /\ outcome.kind # "none") =>
        Returned /\ C3_Findings /\ SummaryIs(3, 0, 2, 1)

C3_Witness == C3_Case /\ Returned

(***************************************************************************)
(* C4.  Supplemental Logging is a three-way decision on the first          *)
(* database_info row, a missing flag read as "NO": all-columns "YES" gives *)
(* PASS without remediation; else minimal "YES" gives PASS, counted in     *)
(* passed and not in warnings, with the advisory remediation; else FAIL    *)
(* with a remediation.                                                     *)
(***************************************************************************)
C4_SupplementalThreeWay ==
    (Returned /\ NonEmpty("database_info")) =>
        LET min == Flag(FirstDbRow, "SUPPLEMENTAL_LOG_DATA_MIN")
            all == Flag(FirstDbRow, "SUPPLEMENTAL_LOG_DATA_ALL")
            fs  == ForCheck(<<"Supplemental Logging">>)
        IN  /\ Len(fs) = 1
            /\ fs[1].value = <<"MIN: ", min, ", ALL: ", all>>
            /\ IF all = "YES"
               THEN fs[1].status = "PASS" /\ ~HasRemediation(fs[1])
               ELSE IF min = "YES"
               THEN /\ fs[1].status = "PASS"
                    /\ HasRemediation(fs[1])
                    /\ fs[1].remediation =
                         <<"Recommended: ALTER DATABASE ADD SUPPLEMENTAL LOG DATA (ALL) COLUMNS;">>
               ELSE fs[1].status = "FAIL" /\ HasRemediation(fs[1])
            /\ Summary.passed = Len(WithStatus("PASS"))
            /\ Summary.warnings = Len(WithStatus("WARNING"))

\* Minimal logging only, decided on the first of two rows whose second row
\* has all-columns logging.
C4_Witness ==
    /\ Returned /\ NonEmpty("database_info")
    /\ Len(results["database_info"].rows) = 2
    /\ Field(FirstDbRow, "SUPPLEMENTAL_LOG_DATA_MIN") = "YES"
    /\ "SUPPLEMENTAL_LOG_DATA_ALL" \notin DOMAIN FirstDbRow
    /\ ForCheck(<<"Supplemental Logging">>)[1].status = "PASS"
    /\ HasRemediation(ForCheck(<<"Supplemental Logging">>)[1])

(***************************************************************************)
(* C5.  Whenever database_info is non-empty, the Archive Log Mode finding  *)
(* is PASS iff the first row's log mode is exactly "ARCHIVELOG"; for every *)
(* other value, an absent field included, it is FAIL with a remediation.   *)
(* With log mode "ARCHIVELOG", all-columns "YES" and CDB "YES" the report  *)
(* has exactly 3 Database findings, all PASS.                              *)
(***************************************************************************)
C5_ArchiveLogMode ==
    (Returned /\ NonEmpty("database_info")) =>
        LET fs == ForCheck(<<"Archive Log Mode">>)
            db == InCategory("Database")
        IN  /\ Len(fs) = 1
            /\ fs[1].status = "PASS" <=> Field(FirstDbRow, "LOG_MODE") = "ARCHIVELOG"
            /\ fs[1].status # "PASS" => fs[1].status = "FAIL" /\ HasRemediation(fs[1])
            /\ ( /\ Field(FirstDbRow, "LOG_MODE") = "ARCHIVELOG"
                 /\ Field(FirstDbRow, "SUPPLEMENTAL_LOG_DATA_ALL") = "YES"
                 /\ Field(FirstDbRow, "CDB") = "YES" )
               => /\ Len(db) = 3
                  /\ \A i \in 1..3 : db[i].status = "PASS"

\* The log-mode field is absent and the finding is FAIL.
C5_Witness ==
    /\ Returned /\ NonEmpty("database_info")
    /\ "LOG_MODE" \notin DOMAIN FirstDbRow
    /\ ForCheck(<<"Archive Log Mode">>)[1].status = "FAIL"

(***************************************************************************)
(* C6.  The Container Database finding is never FAIL: it is PASS when the  *)
(* first database_info row's CDB flag is "YES" and WARNING for every other *)
(* value, so a non-CDB database counts in warnings and never in failed.    *)
(***************************************************************************)
C6_ContainerDatabase ==
    (Returned /\ NonEmpty("database_info")) =>
        LET fs == ForCheck(<<"Container Database">>)
        IN  /\ Len(fs) = 1
            /\ fs[1].status # "FAIL"
            /\ fs[1].status =
                 IF Field(FirstDbRow, "CDB") = "YES" THEN "PASS" ELSE "WARNING"
            /\ Summary.warnings = Len(WithStatus("WARNING"))
            /\ Summary.failed = Len(WithStatus("FAIL"))

\* A non-CDB first row in a report with no failure at all.
C6_Witness ==
    /\ Returned /\ NonEmpty("database_info")
    /\ Field(FirstDbRow, "CDB") # "YES"
    /\ Summary.warnings >= 1
    /\ Summary.failed = 0

(***************************************************************************)
(* C7.  When users_check is non-empty, for each required account: if a row *)
(* with exactly that account name exists (the first such row is the one    *)
(* read), the finding is PASS iff that row's status is "OPEN", otherwise   *)
(* FAIL with a remediation that unlocks that account name; if no row has   *)
(* that name the finding is FAIL with a remediation that creates the       *)
(* account as a common user.  The common-user flag and the default         *)
(* tablespace never change the status: the statuses are those of the same  *)
(* collection with these two columns removed from users_check.  The call   *)
(* returns its report whenever users_check has the account-name and the    *)
(* account-status column.                                                  *)
(***************************************************************************)
\* users_check is non-empty and has the two columns the Users group subscripts.
UsersWellFormed ==
    /\ NonEmpty("users_check")
    /\ {"USERNAME", "ACCOUNT_STATUS"} \subseteq results["users_check"].columns

RowsNamed(user) ==
    SelectSeq(results["users_check"].rows, LAMBDA r : Field(r, "USERNAME") = user)

\* The collection with users_check cut down to the account name and status.
NameAndStatusOnly ==
    LET df   == results["users_check"]
        keep == df.columns \cap {"USERNAME", "ACCOUNT_STATUS"}
    IN  [results EXCEPT !["users_check"] =
            DataFrame(keep, [i \in 1..Len(df.rows) |-> [c \in keep |-> df.rows[i][c]]])]

Statuses(details) == [i \in 1..Len(details) |-> details[i].status]

C7_RequiredAccounts ==
    /\ (outcome.kind # "none" /\ UsersWellFormed) => Returned
    /\ (Returned /\ NonEmpty("users_check")) =>
        /\ \A user \in {"C##XSTREAMADMIN", "C##CONNECTUSER"} :
              LET fs    == ForCheck(<<"User ", user>>)
                  named == RowsNamed(user)
              IN  /\ Len(fs) = 1
                  /\ named # << >> =>
                       /\ fs[1].status = "PASS" <=>
                             Field(named[1], "ACCOUNT_STATUS") = "OPEN"
                       /\ fs[1].status # "PASS" =>
                             /\ fs[1].status = "FAIL"
                             /\ HasRemediation(fs[1])
                             /\ fs[1].remediation =
                                   <<"ALTER USER ", user, " ACCOUNT UNLOCK;">>
                  /\ named = << >> =>
                       /\ fs[1].status = "FAIL"
                       /\ HasRemediation(fs[1])
                       /\ fs[1].remediation =
                             <<"ALTER SESSION SET CONTAINER = CDB$ROOT;\nCREATE USER ",
                               user, " IDENTIFIED BY password CONTAINER=ALL;">>
        /\ LET plain == analyze_configuration(NameAndStatusOnly)
           IN  /\ plain.kind = "return"
               /\ Statuses(plain.findings.details) = Statuses(Details)

\* The capture-admin account is there, locked and not a common user, and
\* the connect account is open: one FAIL with the unlock remediation, one PASS.
C7_Witness ==
    /\ Returned /\ UsersWellFormed
    /\ RowsNamed("C##XSTREAMADMIN") # << >>
    /\ Field(RowsNamed("C##XSTREAMADMIN")[1], "ACCOUNT_STATUS") = "LOCKED"
    /\ Field(RowsNamed("C##XSTREAMADMIN")[1], "COMMON") = "NO"
    /\ ForCheck(<<"User ", "C##XSTREAMADMIN">>)[1].status = "FAIL"
    /\ ForCheck(<<"User ", "C##CONNECTUSER">>)[1].status = "PASS"

(***************************************************************************)
(* C8.  Whenever users_check is non-empty, the report has exactly two      *)
(* Users findings, the capture-admin account's and then the connect        *)
(* account's, and the finding of each is decided by the rows of its own    *)
(* account name alone: it is the finding obtained when every other row of  *)
(* users_check is replaced by one row of an unrelated account.  The report *)
(* is the one the call returns; it returns one whenever users_check has    *)
(* the account-name and the account-status column.                         *)
(***************************************************************************)
\* A row of an account that is not a required one.
UnrelatedRow(columns) ==
    [c \in columns |-> IF c = "USERNAME" THEN "SYSTEM" ELSE "OPEN"]

\* The collection whose users_check holds the rows named `user`, in their
\* order, and then one unrelated row.
OnlyRowsOf(user) ==
    LET df == results["users_check"]
    IN  [results EXCEPT !["users_check"] =
            DataFrame(df.columns, Append(RowsNamed(user), UnrelatedRow(df.columns)))]

UsersOf(details) == SelectSeq(details, LAMBDA d : d.category = "Users")

C8_TwoUsersFindings ==
    /\ (outcome.kind # "none" /\ UsersWellFormed) =>
          Returned /\ Len(InCategory("Users")) = 2
    /\ (Returned /\ NonEmpty("users_check")) =>
        LET us    == InCategory("Users")
            names == <<"C##XSTREAMADMIN", "C##CONNECTUSER">>
        IN  /\ Len(us) = 2
            /\ \A i \in 1..2 :
                  /\ us[i].check = <<"User ", names[i]>>
                  /\ LET alone == analyze_configuration(OnlyRowsOf(names[i]))
                     IN  /\ alone.kind = "return"
                         /\ UsersOf(alone.findings.details)[i] = us[i]

\* users_check holds the connect account only, open: the capture-admin
\* account fails as missing and the connect account passes.
C8_Witness ==
    /\ Returned /\ UsersWellFormed
    /\ RowsNamed("C##XSTREAMADMIN") = << >>
    /\ Len(RowsNamed("C##CONNECTUSER")) = 1
    /\ InCategory("Users")[1].status = "FAIL"
    /\ ~("value" \in DOMAIN InCategory("Users")[1])
    /\ InCategory("Users")[2].status = "PASS"

(***************************************************************************)
(* C9.  Whenever the xstream_outbound key is present, exactly one XStream  *)
(* finding is produced: FAIL with a remediation when the result set is     *)
(* empty; otherwise PASS when the first row's status is "ENABLED" or       *)
(* "ATTACHED", the value reporting the connect user and the queue name,    *)
(* and WARNING for any other status.  A non-empty xstream_outbound never   *)
(* yields FAIL, and only the first row is examined.                        *)
(***************************************************************************)
\* A field as a text shows it: None as "None", a missing queue name as "N/A".
Shown(row, column, missing) ==
    IF column \in DOMAIN row THEN row[column] ELSE missing

C9_OutboundServer ==
    (Returned /\ "xstream_outbound" \in DOMAIN results) =>
        LET xs == InCategory("XStream")
            df == results["xstream_outbound"]
        IN  /\ Len(xs) = 1
            /\ IF Empty(df)
               THEN xs[1].status = "FAIL" /\ HasRemediation(xs[1])
               ELSE /\ xs[1].status # "FAIL"
                    /\ IF Field(df.rows[1], "STATUS") \in {"ENABLED", "ATTACHED"}
                       THEN /\ xs[1].status = "PASS"
                            /\ xs[1].value =
                                 <<"Connect User: ",
                                   Shown(df.rows[1], "CONNECT_USER", "None"),
                                   ", Queue: ",
                                   Shown(df.rows[1], "QUEUE_NAME", "N/A")>>
                       ELSE xs[1].status = "WARNING"

\* Two rows, the first attached and the second disabled: PASS.
C9_Witness ==
    /\ Returned /\ NonEmpty("xstream_outbound")
    /\ Len(results["xstream_outbound"].rows) = 2
    /\ Field(results["xstream_outbound"].rows[1], "STATUS") = "ATTACHED"
    /\ Field(results["xstream_outbound"].rows[2], "STATUS") = "DISABLED"
    /\ InCategory("XStream")[1].status = "PASS"

(***************************************************************************)
(* C10.  A rule group whose governing result set is absent is skipped, no  *)
(* finding and no summary increment: with database_info missing or empty   *)
(* there is no Database finding, with users_check missing or empty no      *)
(* Users finding, with xstream_outbound missing no XStream finding, and    *)
(* nothing is raised for a skipped Users group; total_checks counts the    *)
(* groups evaluated only; the empty collection yields summary (0,0,0,0)    *)
(* and empty details.                                                      *)
(***************************************************************************)
C10_SkippedGroups ==
    /\ (outcome.kind # "none" /\ ~NonEmpty("users_check")) => Returned
    /\ Returned =>
        /\ ~NonEmpty("database_info") => Len(InCategory("Database")) = 0
        /\ ~NonEmpty("users_check") => Len(InCategory("Users")) = 0
        /\ "xstream_outbound" \notin DOMAIN results => Len(InCategory("XStream")) = 0
        /\ Summary.total_checks =
              (IF NonEmpty("database_info") THEN 3 ELSE 0)
            + (IF NonEmpty("users_check") THEN 2 ELSE 0)
            + (IF "xstream_outbound" \in DOMAIN results THEN 1 ELSE 0)
        /\ DOMAIN results = {} => SummaryIs(0, 0, 0, 0) /\ Details = << >>

\* database_info and users_check are held empty and xstream_outbound is
\* missing: the report is empty.
C10_Witness ==
    /\ Returned
    /\ DOMAIN results = {"database_info", "users_check"}
    /\ Empty(results["database_info"]) /\ Empty(results["users_check"])
    /\ SummaryIs(0, 0, 0, 0) /\ Details = << >>

(***************************************************************************)
(* C11.  The details of a returned report are in evaluation order: every   *)
(* Database finding comes before every Users finding, every Users finding  *)
(* before every XStream finding, and the Database findings are Archive Log *)
(* Mode, Supplemental Logging, Container Database in that order.           *)
(***************************************************************************)
GroupOrder == <<"Database", "Users", "XStream">>

DatabaseOrder ==
    <<<<"Archive Log Mode">>, <<"Supplemental Logging">>,
      <<"Container Database">>>>

\* The position of a group in the evaluation order.
GroupRank(category) ==
    CHOOSE i \in DOMAIN GroupOrder : GroupOrder[i] = category

\* The checks of a sequence of findings, in their order.
ChecksOf(details) == [i \in DOMAIN details |-> details[i].check]

C11_EvaluationOrder ==
    Returned =>
        /\ \A i, j \in DOMAIN Details :
               i < j => GroupRank(Details[i].category)
                            <= GroupRank(Details[j].category)
        /\ InCategory("Database") # << >> =>
               ChecksOf(InCategory("Database")) = DatabaseOrder

\* A report with findings of all three groups.
C11_Witness ==
    /\ Returned
    /\ Len(InCategory("Database")) = 3
    /\ Len(InCategory("Users")) = 2
    /\ Len(InCategory("XStream")) = 1

(***************************************************************************)
(* C14.  In a returned report a finding carries a remediation only if its  *)
(* status is FAIL or WARNING.  As stated, no PASS finding has one; in the  *)
(* amended claim the one PASS finding with a remediation is Supplemental   *)
(* Logging for minimal-only logging (all-columns flag not "YES", minimal   *)
(* flag "YES"), whose remediation is the advisory upgrade.                 *)
(***************************************************************************)
\* The Supplemental Logging finding of a database with minimal logging only.
IsMinimalLoggingPass(d) ==
    /\ d.check = <<"Supplemental Logging">>
    /\ d.status = "PASS"
    /\ NonEmpty("database_info")
    /\ Flag(FirstDbRow, "SUPPLEMENTAL_LOG_DATA_ALL") # "YES"
    /\ Flag(FirstDbRow, "SUPPLEMENTAL_LOG_DATA_MIN") = "YES"

C14_RemediationOnlyFailOrWarning ==
    Returned =>
        \A i \in DOMAIN Details :
            HasRemediation(Details[i]) => Details[i].status \in {"FAIL", "WARNING"}

C14_RemediationOnlyFailWarningOrAdvisory ==
    Returned =>
        \A i \in DOMAIN Details :
            HasRemediation(Details[i]) =>
                \/ Details[i].status \in {"FAIL", "WARNING"}
                \/ IsMinimalLoggingPass(Details[i])

\* A report with the advisory PASS finding, a PASS finding without a
\* remediation and a FAIL finding with one.
C14_Witness ==
    /\ Returned
    /\ \E i \in DOMAIN Details :
           HasRemediation(Details[i]) /\ IsMinimalLoggingPass(Details[i])
    /\ \E i \in DOMAIN Details :
           Details[i].status = "PASS" /\ ~HasRemediation(Details[i])
    /\ \E i \in DOMAIN Details :
           Details[i].status = "FAIL" /\ HasRemediation(Details[i])

(***************************************************************************)
(* C19.  The analyzer reads field names case-insensitively: a collection   *)
(* whose column names are all upper-case and the same collection with the  *)
(* column names all lower-case give equal reports.                         *)
(***************************************************************************)
\* A column name in lower case.
Lower(column) ==
    CASE column = "LOG_MODE"                  -> "log_mode"
      [] column = "SUPPLEMENTAL_LOG_DATA_MIN" -> "supplemental_log_data_min"
      [] column = "SUPPLEMENTAL_LOG_DATA_ALL" -> "supplemental_log_data_all"
      [] column = "CDB"                       -> "cdb"
      [] column = "USERNAME"                  -> "username"
      [] column = "ACCOUNT_STATUS"            -> "account_status"
      [] column = "COMMON"                    -> "common"
      [] column = "DEFAULT_TABLESPACE"        -> "default_tablespace"
      [] column = "SERVER_NAME"               -> "server_name"
      [] column = "CONNECT_USER"              -> "connect_user"
      [] column = "QUEUE_NAME"                -> "queue_name"
      [] column = "STATUS"                    -> "status"

\* A frame with its column names in lower case, its values unchanged.
LowerFrame(df) ==
    LET upper(c) == CHOOSE u \in df.columns : Lower(u) = c IN
    DataFrame({Lower(c) : c \in df.columns},
              [i \in DOMAIN df.rows |->
                  [c \in {Lower(u) : u \in DOMAIN df.rows[i]} |->
                      df.rows[i][upper(c)]]])

\* A collection with the column names of every frame in lower case.
LowerCased(collection) ==
    [key \in DOMAIN collection |-> LowerFrame(collection[key])]

C19_CaseInsensitive ==
    Returned => analyze_configuration(LowerCased(results)) = outcome

Agree(key) ==
    /\ (key \in DOMAIN first.results) = (key \in DOMAIN results)
    /\ key \in DOMAIN results => first.results[key] = results[key]

\* The findings of a group in the report of the first call.
FirstInCategory(category) ==
    SelectSeq(first.outcome.findings.details, LAMBDA d : d.category = category)

C13_GroupsIndependent ==
    (first.outcome.kind = "return" /\ Returned) =>
        /\ Agree("database_info") =>
               FirstInCategory("Database") = InCategory("Database")
        /\ Agree("users_check") =>
               FirstInCategory("Users") = InCategory("Users")
        /\ Agree("xstream_outbound") =>
               FirstInCategory("XStream") = InCategory("XStream")

\* Two reports with the same three Database findings, from collections that
\* agree on database_info and on no other key.
C13_Witness ==
    /\ first.outcome.kind = "return" /\ Returned
    /\ Agree("database_info") /\ Len(InCategory("Database")) = 3
    /\ ~Agree("users_check") /\ ~Agree("xstream_outbound") /\ ~Agree(NeverRead)
    /\ FirstInCategory("Users") # InCategory("Users")
    /\ FirstInCategory("XStream") # InCategory("XStream")

(***************************************************************************)
(* C20.  The aggregation invariant holds at every point of a call, after   *)
(* each statement and not only on return: in the findings dictionary       *)
(* total_checks = passed + failed + warnings and total_checks = the number *)
(* of findings appended so far; no statement, one that raises included,    *)
(* comes between the increments and the append of a finding, and no path   *)
(* increments a counter without appending the finding.                     *)
(***************************************************************************)
C20_InvariantAtEveryStep ==
    /\ findings.summary.total_checks =
           findings.summary.passed + findings.summary.failed
               + findings.summary.warnings
    /\ findings.summary.total_checks = Len(findings.details)

(***************************************************************************)
(* C15.  execute_queries isolates failures per query: whatever subset of   *)
(* the queries fails, every query of the mapping is attempted, the         *)
(* collection returned has exactly the keys of the mapping, a query that   *)
(* failed maps to the empty DataFrame and a query that succeeded to its    *)
(* own result; while the loop runs the collection holds exactly the        *)
(* queries attempted so far.                                               *)
(***************************************************************************)
\* The positions of the log where execute_query completed.
QueryEntries == {i \in DOMAIN log : log[i].op = "execute_query"}

\* execute_queries has been entered.
InBatch == pc \in {"execute_queries", "store", "show_status", "done", "error"}

\* execute_queries has returned.
BatchReturned == pc \in {"store", "show_status", "done", "error"}

C15_FailuresIsolated ==
    InBatch =>
        /\ DOMAIN results = {log[i].name : i \in QueryEntries}
        /\ DOMAIN results \cup Names(queries)
               = Names(generate_verification_sql) \ {"set_container"}
        /\ BatchReturned =>
               DOMAIN results = Names(generate_verification_sql) \ {"set_container"}
        /\ \A i \in QueryEntries :
               results[log[i].name] =
                   IF log[i].error # None THEN EmptyDataFrame
                   ELSE database[log[i].name]

\* A batch that returned with a rejected query, a query that failed for the
\* lost connection and a query that succeeded.
C15_Witness ==
    /\ BatchReturned
    /\ \E i \in QueryEntries : log[i].error = "Query Error"
    /\ \E i \in QueryEntries : log[i].error = "Not connected"
    /\ \E i \in QueryEntries :
           log[i].error = None /\ results[log[i].name] # EmptyDataFrame

(***************************************************************************)
(* C16.  In a verification run the context-setting statement is attempted  *)
(* and has completed, with success or with an error, before the first      *)
(* diagnostic query; its failure does not end the run; and the statement   *)
(* is never among the diagnostic queries nor a key of the result           *)
(* collection.                                                             *)
(***************************************************************************)
C16_ContextStatementFirst ==
    /\ InBatch => (log # << >> /\ log[1].op = "execute_ddl")
    /\ \A i \in QueryEntries : i > 1 /\ log[i].name # "set_container"
    /\ "set_container" \notin Names(queries)
    /\ "set_container" \notin DOMAIN results
    /\ (log # << >> /\ log[1].error # None) => pc # "error"

\* A run that stored its report although the database rejected the
\* context-setting statement.
C16_Witness ==
    /\ pc = "done"
    /\ log[1].op = "execute_ddl" /\ log[1].error = "DDL Error"
    /\ Cardinality(QueryEntries) = 4
    /\ "findings" \in DOMAIN session_state
    /\ session_state["findings"] = outcome.findings

(***************************************************************************)
(* C17.  A connectivity error is fatal to the whole run: when the database *)
(* cannot be reached, at the liveness check that starts the run or at any  *)
(* gateway call after it, no report is produced, stored or shown.          *)
(***************************************************************************)
\* Nothing has come out of the run.
NothingProduced ==
    /\ outcome = NotCalled
    /\ session_state = NoReport
    /\ overall = None

C17_ConnectivityErrorAborts ==
    /\ pc = "refused" => NothingProduced
    /\ (\E i \in DOMAIN log : log[i].error = "Not connected") => NothingProduced

(***************************************************************************)
(* C18.  The overall status shown is a total function of the summary: it   *)
(* is FAIL exactly when failed > 0, PASS WITH WARNINGS exactly when        *)
(* failed = 0 and warnings > 0, and PASS exactly when both are 0; a report *)
(* with a FAIL finding is never shown as PASS.                             *)
(***************************************************************************)
C18_OverallStatus ==
    pc = "done" =>
        /\ overall \in {"PASS", "PASS WITH WARNINGS", "FAIL"}
        /\ (overall = "FAIL") = (Summary.failed > 0)
        /\ (overall = "PASS WITH WARNINGS")
               = (Summary.failed = 0 /\ Summary.warnings > 0)
        /\ (overall = "PASS") = (Summary.failed = 0 /\ Summary.warnings = 0)
        /\ WithStatus("FAIL") # << >> => overall # "PASS"

\* A report with warnings and failures shown as FAIL.
C18_Witness ==
    /\ pc = "done"
    /\ Summary.failed > 0 /\ Summary.warnings > 0 /\ Summary.passed > 0
    /\ overall = "FAIL"

(***************************************************************************)
(* C21.  Every report of a verification run has exactly one XStream        *)
(* finding and 1 <= total_checks <= 6.  When the xstream_outbound query    *)
(* failed, the XStream finding is the FAIL finding of a database without   *)
(* an outbound server (the query answered with no rows); when the          *)
(* database_info query failed the report has no Database finding, when the *)
(* users_check query failed it has no Users finding; when every query      *)
(* failed the report is the single XStream FAIL finding.                   *)
(***************************************************************************)
\* The query of that name was attempted and failed.
QueryFailed(name) ==
    \E i \in QueryEntries : log[i].name = name /\ log[i].error # None

\* The report for a database that answers xstream_outbound with no rows and
\* nothing else.
Unconfigured ==
    analyze_configuration(
        [xstream_outbound |-> DataFrame(Columns("xstream_outbound"), << >>)])

C21_OneXStreamFinding ==
    (BatchReturned /\ Returned) =>
        /\ Len(InCategory("XStream")) = 1
        /\ Summary.total_checks >= 1 /\ Summary.total_checks <= 6
        /\ QueryFailed("xstream_outbound") =>
               /\ InCategory("XStream") = Unconfigured.findings.details
               /\ InCategory("XStream")[1].status = "FAIL"
        /\ QueryFailed("database_info") => InCategory("Database") = << >>
        /\ QueryFailed("users_check") => InCategory("Users") = << >>
        /\ (\A i \in QueryEntries : log[i].error # None) =>
               /\ Len(Details) = 1
               /\ Details[1].category = "XStream" /\ Details[1].status = "FAIL"
               /\ SummaryIs(1, 0, 1, 0)

\* The report of a run in which every query was rejected by the database
\* over an open connection.
C21_Witness ==
    /\ pc = "done"
    /\ Cardinality(QueryEntries) = 4
    /\ \A i \in QueryEntries : log[i].error = "Query Error"
    /\ Returned /\ SummaryIs(1, 0, 1, 0)

(***************************************************************************)
(* C22.  Across the reruns of the script the pair st.session_state         *)
(* ['results'], ['findings'] is written only together and only by a run    *)
(* that reached the analyzer: whenever findings is stored, results is      *)
(* stored too and findings is the report analyze_configuration returns on  *)
(* the stored results; and every step other than the store of a run whose  *)
(* analysis returned (a rerun without the button, a run refused for want   *)
(* of a live connection, a disconnect, an exception before the store)      *)
(* leaves the pair as it was, so the last report stays on display.         *)
(***************************************************************************)
\* The stored pair is a collection and the report of that collection.
PairConsistent ==
    session_state # NoReport =>
        /\ DOMAIN session_state = {"results", "findings"}
        /\ analyze_configuration(session_state["results"])
               = [kind |-> "return", findings |-> session_state["findings"]]

\* The pair changes only in the store of a run whose analysis returned.
OnlyStoreWrites ==
    session_state' # session_state =>
        /\ pc = "store" /\ Returned
        /\ session_state' = [results |-> results, findings |-> outcome.findings]

C22_StoredPairKept == [](PairConsistent) /\ [][OnlyStoreWrites]_vars

\* A run refused for want of a live connection while the report of an
\* earlier run is still stored.
C22_Witness ==
    /\ pc = "refused"
    /\ session_state # NoReport
    /\ Len(session_state["findings"].details) > 1

(***************************************************************************)
(* C23.  In any sequence of connect, disconnect, execute_query and         *)
(* execute_ddl calls on one manager: (a) execute_query and execute_ddl     *)
(* send their statement only if the liveness probe succeeded immediately   *)
(* before; (b) after a disconnect that returned success the manager holds  *)
(* no connection, is_connected is False and both execute operations raise  *)
(* "Not connected", until a later connect returns success; (c) disconnect  *)
(* on a manager with no connection returns success and changes nothing;    *)
(* (d) a connect that returns success = False leaves the manager not       *)
(* connected.  In the amended claim (b) keeps is_connected False and the   *)
(* two raises, and the manager holds no connection until a later connect   *)
(* has opened one, which a connect does before it returns False for a      *)
(* failed test query; and (d) is that a connect returning success = False  *)
(* never connects the manager: is_connected holds after it only if it held *)
(* before it, on the same connection.                                      *)
(***************************************************************************)
IsExecute(call) == call.op \in {"execute_query", "execute_ddl"}

\* The call got past the probe: its statement went to the database.
Sent(call) == IsExecute(call) /\ call.error # "Not connected"

\* Call i is a disconnect that returned success and no connect among the
\* calls i+1 .. j has returned success.
DisconnectedSince(i, j) ==
    /\ log[i].op = "disconnect" /\ log[i].error = None
    /\ \A k \in (i + 1)..j : ~(log[k].op = "connect" /\ log[k].error = None)

ProbeBeforeStatement ==
    \A i \in DOMAIN log : Sent(log[i]) => is_connected(log[i].before)

NoConnectionUntilConnect ==
    \A i \in DOMAIN log : \A j \in i..Len(log) :
        DisconnectedSince(i, j) =>
            /\ log[j].after = "none"
            /\ ~is_connected(log[j].after)
            /\ IsExecute(log[j]) => log[j].error = "Not connected"

DisconnectOfNone ==
    \A i \in DOMAIN log :
        (log[i].op = "disconnect" /\ log[i].before = "none") =>
            log[i].error = None /\ log[i].after = "none"

FailedConnectNotConnected ==
    \A i \in DOMAIN log :
        (log[i].op = "connect" /\ log[i].error # None) =>
            ~is_connected(log[i].after)

C23_ManagerLifecycle ==
    /\ ProbeBeforeStatement
    /\ NoConnectionUntilConnect
    /\ DisconnectOfNone
    /\ FailedConnectNotConnected

\* Among the calls i+1 .. j a connect has opened a connection.
OpenedSince(i, j) ==
    \E k \in (i + 1)..j : log[k].op = "connect" /\ log[k].after # log[k].before

NotConnectedUntilConnect ==
    \A i \in DOMAIN log : \A j \in i..Len(log) :
        DisconnectedSince(i, j) =>
            /\ log[j].after = "none" \/ OpenedSince(i, j)
            /\ ~is_connected(log[j].after)
            /\ IsExecute(log[j]) => log[j].error = "Not connected"

FailedConnectConnectsNothing ==
    \A i \in DOMAIN log :
        (log[i].op = "connect" /\ log[i].error # None) =>
            (is_connected(log[i].after) =>
                is_connected(log[i].before) /\ log[i].after = log[i].before)

C23_ManagerLifecycleAmended ==
    /\ ProbeBeforeStatement
    /\ NotConnectedUntilConnect
    /\ DisconnectOfNone
    /\ FailedConnectConnectsNothing

\* A connect that succeeds, a connect that fails on the connected manager,
\* a disconnect that succeeds and an execute_query that raises.
C23_Witness ==
    /\ Len(log) = 4
    /\ log[1].op = "connect" /\ log[1].error = None
    /\ log[2].op = "connect" /\ log[2].error # None /\ is_connected(log[2].after)
    /\ log[3].op = "disconnect" /\ log[3].error = None /\ log[3].before = "open"
    /\ log[4].op = "execute_query" /\ log[4].error = "Not connected"
====
